---- MODULE Spec2Model ----
(***************************************************************************)
(* A model of pica's orchestrator (src/src/lib.rs, struct Pica), of the    *)
(* connection task spawned by Pica::connect, and of the session commands   *)
(* of src/src/uwb_subsystem/session.rs.                                    *)
(*                                                                         *)
(* The orchestrator owns the device table, the anchor table and the handle *)
(* counter.  It receives PicaCommand messages from a bounded inbox and     *)
(* answers UCI commands on a bounded outbound queue per device, which the  *)
(* device's connection task drains to the socket.                          *)
(***************************************************************************)
EXTENDS Integers, Sequences, FiniteSets, TLC

(***************************************************************************)
(* Bounds of the model.                                                    *)
(***************************************************************************)
\* Connect messages the listener posts in the concurrency specification.
MaxConnects == 1
\* PDUs the host writes on one connection.
MaxPdus == 4
\* Connect messages and PDUs per connection where the order of the
\* responses is checked.
OrderConnects == 1
MaxOrderPdus == 3
\* Connect messages where the handle counter and the device table are
\* checked past MAX_DEVICE.
MaxHandles == 9
\* Connect messages, anchor MAC addresses and coordinates of the world.
WorldConnects == 2
WorldMacs == 2
\* Session ids where the session commands of one device are checked.
MaxSessionIds == 2
\* PDUs of the host where the life cycle of one session is followed.
MaxPathPdus == 5
\* PDUs of the host and ticks of the ranging task where a session ranges.
MaxRangingPdus == 4
MaxTicks == 2
\* The largest value of the sequence counter of a session, standing for
\* usize::MAX: small, so that the counter reaches it.
USIZE_MAX == 3
\* Bytes waiting in the socket of a connection and reads of the connection
\* task where the bytes of the host are followed.
MaxSocketBytes == 8
MaxReads == 3
\* The largest coordinate, in millimetres, of the poses whose distances are
\* compared.
MaxCoord == 3
\* Capacity of the inbox: stands for mpsc::channel(MAX_SESSION * MAX_DEVICE).
InboxCap == 2
\* Capacity of a device's outbound queue: stands for mpsc::channel(MAX_SESSION).
OutCap == 2

(***************************************************************************)
(* Program constants.                                                      *)
(***************************************************************************)
MAX_SESSION == 255
MAX_DEVICE == 8

(***************************************************************************)
(* Values.                                                                 *)
(***************************************************************************)
Min(a, b) == IF a < b THEN a ELSE b

\* MacAddress::Short / MacAddress::Extend: the tagged form is the identity.
ShortMac(n) == [tag |-> "Short", addr |-> n]
ExtendMac(n) == [tag |-> "Extend", addr |-> n]

\* Position::default()
ZeroPos == <<0, 0, 0>>

\* Device::new followed by Device::init: the default MAC is derived from
\* the handle, the pose is zero and the session table is empty.
DefaultMac(h) == ShortMac(h % 65536)

NewDevice(h) ==
    [mac_address |-> DefaultMac(h), position |-> ZeroPos, sessions |-> <<>>]

\* web::Device::new(category, mac_address, position)
WebDevice(category, mac, pos) ==
    [category |-> category, mac_address |-> mac, position |-> pos]

\* HashMap::insert and HashMap::remove on a table kept as a function.
Insert(table, k, v) ==
    [x \in DOMAIN table \cup {k} |-> IF x = k THEN v ELSE table[x]]

Remove(table, k) == [x \in DOMAIN table \ {k} |-> table[x]]

VARIABLES
    devices,   \* Pica::devices: handle -> Device
    anchors,   \* Pica::anchors: MacAddress -> Anchor
    counter,   \* Pica::counter
    inbox,     \* the messages in Pica::rx, oldest first
    orch,      \* where the orchestrator is: receiving, sending, or panicked
    outq,      \* handle -> the packets in the device's outbound queue
    conn,      \* handle -> the state of the device's connection task
    wire,      \* handle -> what the connection task has written to the socket
    emitted,   \* the events the last handled message sent on event_tx
    added,     \* handle -> number of DeviceAdded events emitted for the device
    removed,   \* handle -> number of DeviceRemoved events emitted for it
    sent,      \* the packets the last handled message put on an outbound queue
    reply,     \* what the last control message sent on its one-shot channel
    last       \* the last message the orchestrator took from the inbox

vars ==
    <<devices, anchors, counter, inbox, orch, outq, conn, wire, emitted,
      added, removed, sent, reply, last>>

(***************************************************************************)
(* Pica::new: empty tables, counter 0, empty inbox.                        *)
(***************************************************************************)
Receiving == [pc |-> "recv"]
Panicked == [pc |-> "panicked"]
NoReply == [to |-> "none"]
NoAfter == [kind |-> "none"]

Init ==
    /\ devices = <<>>
    /\ anchors = <<>>
    /\ counter = 0
    /\ inbox = <<>>
    /\ orch = Receiving
    /\ outq = <<>>
    /\ conn = <<>>
    /\ wire = <<>>
    /\ emitted = <<>>
    /\ added = <<>>
    /\ removed = <<>>
    /\ sent = <<>>
    /\ reply = NoReply
    /\ last = [tick |-> 0, msg |-> [type |-> "none"]]

(***************************************************************************)
(* The orchestrator's sends on a device's outbound queue.                  *)
(***************************************************************************)
\* The receiving half (packet_rx) lives in the connection task and is
\* dropped when the task ends: from then on device.tx.send returns Err.
closed(h) == conn[h].pc \in {"exited", "panicked"}

\* (a queue that hands out the newest packet first)
EnqueueFront(q, pkts) == pkts \o q

\* mpsc::Sender::send places the packet at the back of the queue.
Enqueue(q, pkts) == q \o pkts

\* session.sequence_number += 1 on a usize: at the maximum the addition
\* overflows, which panics in a build with overflow checks (debug) and
\* wraps to 0 in a build without (release).
IncrSeq(seq, overflow_checks) ==
    IF seq < USIZE_MAX
    THEN [value |-> seq + 1, panic |-> FALSE]
    ELSE [value |-> 0, panic |-> overflow_checks]

\* What the handler does after its send has completed.
After(devs, h, after, overflow_checks) ==
    IF after.kind = "seq"
    THEN LET r == IncrSeq(devs[h].sessions[after.sid].sequence_number,
                          overflow_checks)
         IN
         IF r.panic
         THEN [devs |-> devs, orch |-> Panicked]
         ELSE [devs |-> [devs EXCEPT
                            ![h].sessions[after.sid].sequence_number = r.value],
               orch |-> Receiving]
    ELSE [devs |-> devs, orch |-> Receiving]

\* device.tx.send(packet).await for each packet of pkts in turn, on the
\* queue of device h, with the device table as the handler has left it and
\* sofar the packets the handler has enqueued already.  A send on a closed
\* queue fails: the caller logs the error (onerr = "log") or unwraps it
\* (onerr = "unwrap").  A send on a full queue waits.
deliver(devs, h, pkts, onerr, after, sofar) ==
    LET n == Min(OutCap - Len(outq[h]), Len(pkts))
        now == SubSeq(pkts, 1, n)
    IN
    IF closed(h)
    THEN /\ devices' = devs
         /\ orch' = IF onerr = "unwrap" THEN Panicked ELSE Receiving
         /\ sent' = sofar
         /\ UNCHANGED outq
    ELSE /\ outq' = [outq EXCEPT ![h] = Enqueue(@, now)]
         /\ sent' = sofar \o [i \in 1..n |-> [h |-> h, pkt |-> now[i]]]
         /\ IF n = Len(pkts)
            THEN \E overflow_checks \in BOOLEAN :
                    LET r == After(devs, h, after, overflow_checks) IN
                    /\ devices' = r.devs
                    /\ orch' = r.orch
            ELSE /\ devices' = devs
                 /\ orch' = [pc |-> "send", h |-> h,
                             pkts |-> SubSeq(pkts, n + 1, Len(pkts)),
                             onerr |-> onerr, after |-> after]

\* The orchestrator, suspended in send, goes on when the queue has room or
\* has been closed.
resume ==
    /\ orch.pc = "send"
    /\ closed(orch.h) \/ Len(outq[orch.h]) < OutCap
    /\ deliver(devices, orch.h, orch.pkts, orch.onerr, orch.after, sent)
    /\ UNCHANGED <<anchors, counter, inbox, conn, wire, emitted, added,
                   removed, reply, last>>

(***************************************************************************)
(* Events.                                                                 *)
(***************************************************************************)
DeviceAdded(d) == [event |-> "DeviceAdded", device |-> d]
DeviceRemoved(d) == [event |-> "DeviceRemoved", device |-> d]
DeviceUpdated(d) == [event |-> "DeviceUpdated", device |-> d]

(***************************************************************************)
(* Pica::connect                                                           *)
(***************************************************************************)
\* The connection task as spawned: in its select loop, nothing read yet,
\* and no byte of the host waiting in its socket.
NoMsg == [type |-> "none"]

NewTask == [pc |-> "loop", n |-> 0, disc |-> 0, msg |-> NoMsg, socket |-> <<>>]

\* (the number of live devices, which a disconnection makes free again)
ReusedHandle == Cardinality(DOMAIN devices)

\* The handle of a new device is the current value of the counter.
NextHandle == counter

connect ==
    LET h == NextHandle
        d == NewDevice(h)
    IN
    /\ counter' = counter + 1
    /\ emitted' = <<DeviceAdded(WebDevice("Uci", d.mac_address, d.position))>>
    /\ added' = Insert(added, h, IF h \in DOMAIN added THEN added[h] + 1 ELSE 1)
    /\ removed' = Insert(removed, h, IF h \in DOMAIN removed THEN removed[h] ELSE 0)
    /\ devices' = Insert(devices, h, d)
    /\ outq' = Insert(outq, h, <<>>)
    /\ conn' = Insert(conn, h, NewTask)
    /\ wire' = Insert(wire, h, <<>>)
    /\ sent' = <<>>
    /\ orch' = Receiving
    /\ reply' = NoReply
    /\ UNCHANGED anchors

(***************************************************************************)
(* Pica::disconnect                                                        *)
(***************************************************************************)
\* (a disconnect that removes the device and tells no observer)
disconnect_silently(h) ==
    /\ devices' = Remove(devices, h)
    /\ emitted' = <<>>
    /\ sent' = <<>>
    /\ orch' = Receiving
    /\ reply' = NoReply
    /\ UNCHANGED <<anchors, counter, outq, conn, wire, added, removed>>

disconnect(h) ==
    /\ IF h \in DOMAIN devices
       THEN /\ emitted' = <<DeviceRemoved(WebDevice("Uci", devices[h].mac_address,
                                                    devices[h].position))>>
            /\ removed' = [removed EXCEPT ![h] = @ + 1]
            /\ devices' = Remove(devices, h)
       ELSE /\ emitted' = <<>>
            /\ UNCHANGED <<devices, removed>>
    /\ sent' = <<>>
    /\ orch' = Receiving
    /\ reply' = NoReply
    /\ UNCHANGED <<anchors, counter, outq, conn, wire, added>>

(***************************************************************************)
(* Pica::get_state                                                         *)
(***************************************************************************)
\* The list sent on the reply channel, in no particular order (the tables
\* are hash maps): kept as the set of its entries.
Snapshot ==
    {WebDevice("Anchor", anchors[m].mac_address, anchors[m].position) :
        m \in DOMAIN anchors}
    \cup {WebDevice("Uci", devices[h].mac_address, devices[h].position) :
            h \in DOMAIN devices}

\* state_tx.send(web_devices).unwrap(): a dropped receiver is a panic.
get_state(alive) ==
    /\ IF alive
       THEN /\ reply' = [to |-> "GetState", val |-> Snapshot]
            /\ orch' = Receiving
       ELSE /\ orch' = Panicked
            /\ reply' = NoReply
    /\ emitted' = <<>>
    /\ sent' = <<>>
    /\ UNCHANGED <<devices, anchors, counter, outq, conn, wire, added, removed>>

(***************************************************************************)
(* UCI packets put on the outbound queue.  id names the command a          *)
(* response answers: the k-th PDU of the connection has id k.              *)
(***************************************************************************)
Rsp(cmd, status) ==
    [kind |-> "rsp", op |-> cmd.op, id |-> cmd.id, status |-> status]

\* SessionGetCountRspBuilder { status, session_count }
GetCountRsp(cmd, status, count) ==
    [kind |-> "rsp", op |-> cmd.op, id |-> cmd.id, status |-> status,
     session_count |-> count]

\* SessionGetStateRspBuilder { status, session_state }
GetStateRsp(cmd, status, state) ==
    [kind |-> "rsp", op |-> cmd.op, id |-> cmd.id, status |-> status,
     session_state |-> state]

\* Device::send_session_status_notification
SessionStatusNtf(sid, state, reason) ==
    [kind |-> "ntf", op |-> "SessionStatus", sid |-> sid, state |-> state,
     reason |-> reason]

\* ShortMacTwoWayRangeDataNtfBuilder { sequence_number, session_id, .. }
RangeDataNtf(sid, seq, measurements) ==
    [kind |-> "ntf", op |-> "RangeData", sid |-> sid,
     sequence_number |-> seq,
     two_way_ranging_measurements |-> measurements]

IsStatusNtf(p) == p.kind = "ntf" /\ p.op = "SessionStatus"

(***************************************************************************)
(* Session commands (src/src/uwb_subsystem/session.rs).  Each takes the    *)
(* device and the command and gives the device as the command leaves it    *)
(* and the packets it sends on device.tx, in order.  The sends themselves  *)
(* (device.tx.send(..).await) are made by deliver.                         *)
(***************************************************************************)
\* Session::default() with the state, id and type session_init sets.
\* The destination list read by Pica::ranging is empty until configured.
NewSession(sid) ==
    [state |-> "Init", id |-> sid, session_type |-> "FiraRangingSession",
     sequence_number |-> 0, dst_mac_addresses |-> <<>>]

\* Device::add_session: a session id already in the table is a duplicate,
\* and the table holds at most MAX_SESSION sessions.
add_session(dev, session) ==
    IF session.id \in DOMAIN dev.sessions
    THEN [status |-> "SessionDuplicate", dev |-> dev]
    ELSE IF Cardinality(DOMAIN dev.sessions) >= MAX_SESSION
    THEN [status |-> "MaxSessionsExceeded", dev |-> dev]
    ELSE [status |-> "Ok",
          dev |-> [dev EXCEPT !.sessions = Insert(@, session.id, session)]]

StateChange == "StateChangeWithSessionManagementCommands"

\* (a session_init that answers and does not notify)
session_init_unnotified(dev, cmd) ==
    LET r == add_session(dev, NewSession(cmd.sid)) IN
    [dev |-> r.dev, pkts |-> <<Rsp(cmd, r.status)>>]

session_init(dev, cmd) ==
    LET r == add_session(dev, NewSession(cmd.sid)) IN
    [dev |-> r.dev,
     pkts |-> <<Rsp(cmd, r.status)>> \o
              (IF r.status = "Ok"
               THEN <<SessionStatusNtf(cmd.sid, "Init", StateChange)>>
               ELSE <<>>)]

session_deinit(dev, cmd) ==
    LET status == IF cmd.sid \in DOMAIN dev.sessions
                  THEN "Ok" ELSE "SessionNotExist"
    IN
    [dev |-> [dev EXCEPT !.sessions = Remove(@, cmd.sid)],
     pkts |-> <<Rsp(cmd, status)>> \o
              (IF status = "Ok"
               THEN <<SessionStatusNtf(cmd.sid, "Deinit", StateChange)>>
               ELSE <<>>)]

\* (a session_set_app_config that notifies Idle for any session it finds)
session_set_app_config_renotified(dev, cmd) ==
    LET found == cmd.sid \in DOMAIN dev.sessions IN
    [dev |-> IF found
             THEN [dev EXCEPT !.sessions[cmd.sid].state = "Idle"]
             ELSE dev,
     pkts |-> <<Rsp(cmd, "Ok")>> \o
              (IF found
               THEN <<SessionStatusNtf(cmd.sid, "Idle", StateChange)>>
               ELSE <<>>)]

\* (a session_set_app_config that takes any session back to Idle)
session_set_app_config_resetting(dev, cmd) ==
    LET found == cmd.sid \in DOMAIN dev.sessions
        init == found /\ dev.sessions[cmd.sid].state = "Init"
    IN
    [dev |-> IF found
             THEN [dev EXCEPT !.sessions[cmd.sid].state = "Idle"]
             ELSE dev,
     pkts |-> <<Rsp(cmd, "Ok")>> \o
              (IF init
               THEN <<SessionStatusNtf(cmd.sid, "Idle", StateChange)>>
               ELSE <<>>)]

\* The status computed from the session table decides the notification;
\* the response is built with StatusCode::UciStatusOk (session.rs:129).
session_set_app_config(dev, cmd) ==
    LET found == cmd.sid \in DOMAIN dev.sessions
        init == found /\ dev.sessions[cmd.sid].state = "Init"
        status == IF init THEN "Ok"
                  ELSE IF found THEN "SessionActive" ELSE "SessionNotExist"
    IN
    [dev |-> IF init
             THEN [dev EXCEPT !.sessions[cmd.sid].state = "Idle"]
             ELSE dev,
     pkts |-> <<Rsp(cmd, "Ok")>> \o
              (IF status = "Ok"
               THEN <<SessionStatusNtf(cmd.sid, "Idle", StateChange)>>
               ELSE <<>>)]

session_get_count(dev, cmd) ==
    [dev |-> dev,
     pkts |-> <<GetCountRsp(cmd, "Ok", Cardinality(DOMAIN dev.sessions) % 256)>>]

session_get_state(dev, cmd) ==
    [dev |-> dev,
     pkts |-> IF cmd.sid \in DOMAIN dev.sessions
              THEN <<GetStateRsp(cmd, "Ok", dev.sessions[cmd.sid].state)>>
              ELSE <<GetStateRsp(cmd, "SessionNotExist", "Init")>>]

\* todo!(): the function panics when called.
session_get_app_config(dev, cmd) == [dev |-> dev, pkts |-> <<>>, panic |-> TRUE]

session_update_controller_multicast_list(dev, cmd) ==
    [dev |-> dev, pkts |-> <<>>, panic |-> TRUE]

\* RANGE_START and RANGE_STOP: Idle -> Active and Active -> Idle; the
\* ranging task of the session runs while the session is Active.
range_start(dev, cmd) ==
    IF cmd.sid \notin DOMAIN dev.sessions
    THEN [dev |-> dev, pkts |-> <<Rsp(cmd, "SessionNotExist")>>]
    ELSE IF dev.sessions[cmd.sid].state /= "Idle"
    THEN [dev |-> dev, pkts |-> <<Rsp(cmd, "Rejected")>>]
    ELSE [dev |-> [dev EXCEPT !.sessions[cmd.sid].state = "Active"],
          pkts |-> <<Rsp(cmd, "Ok"),
                     SessionStatusNtf(cmd.sid, "Active", StateChange)>>]

range_stop(dev, cmd) ==
    IF cmd.sid \notin DOMAIN dev.sessions
    THEN [dev |-> dev, pkts |-> <<Rsp(cmd, "SessionNotExist")>>]
    ELSE IF dev.sessions[cmd.sid].state /= "Active"
    THEN [dev |-> dev, pkts |-> <<Rsp(cmd, "Rejected")>>]
    ELSE [dev |-> [dev EXCEPT !.sessions[cmd.sid].state = "Idle"],
          pkts |-> <<Rsp(cmd, "Ok"),
                     SessionStatusNtf(cmd.sid, "Idle", StateChange)>>]

\* The application configuration of an accepted SESSION_SET_APP_CONFIG is
\* kept in the session: r is what session_set_app_config has made of dev.
\* Only the destination list, where the command names one, is modelled.
store_app_config(r, dev, cmd) ==
    IF /\ "dst" \in DOMAIN cmd
       /\ cmd.sid \in DOMAIN dev.sessions
       /\ dev.sessions[cmd.sid].state = "Init"
    THEN [r EXCEPT !.dev.sessions[cmd.sid].dst_mac_addresses = cmd.dst]
    ELSE r

\* Device::command: route the command by its opcode.  A command that is no
\* session or ranging command (CORE_GET_DEVICE_INFO, ...) gets one response.
device_command(dev, cmd) ==
    CASE cmd.op = "SessionInit" -> session_init(dev, cmd)
      [] cmd.op = "SessionDeinit" -> session_deinit(dev, cmd)
      [] cmd.op = "SessionSetAppConfig" ->
            store_app_config(session_set_app_config(dev, cmd), dev, cmd)
      [] cmd.op = "SessionGetAppConfig" -> session_get_app_config(dev, cmd)
      [] cmd.op = "SessionGetCount" -> session_get_count(dev, cmd)
      [] cmd.op = "SessionGetState" -> session_get_state(dev, cmd)
      [] cmd.op = "SessionUpdateControllerMulticastList" ->
            session_update_controller_multicast_list(dev, cmd)
      [] cmd.op = "RangeStart" -> range_start(dev, cmd)
      [] cmd.op = "RangeStop" -> range_stop(dev, cmd)
      [] OTHER -> [dev |-> dev, pkts |-> <<Rsp(cmd, "Ok")>>]

(***************************************************************************)
(* Pica::command                                                           *)
(***************************************************************************)
\* assert_eq!(cmd.get_packet_boundary_flag(), Complete): a fragment panics.
\* A command for a handle that is not in the table is logged and dropped.
command(h, cmd) ==
    /\ emitted' = <<>>
    /\ reply' = NoReply
    /\ UNCHANGED <<anchors, counter, conn, wire, added, removed>>
    /\ IF ~cmd.complete
       THEN /\ orch' = Panicked
            /\ sent' = <<>>
            /\ UNCHANGED <<devices, outq>>
       ELSE IF h \notin DOMAIN devices
       THEN /\ orch' = Receiving
            /\ sent' = <<>>
            /\ UNCHANGED <<devices, outq>>
       ELSE LET r == device_command(devices[h], cmd) IN
            IF "panic" \in DOMAIN r
            THEN /\ orch' = Panicked
                 /\ sent' = <<>>
                 /\ UNCHANGED <<devices, outq>>
            ELSE deliver([devices EXCEPT ![h] = r.dev], h, r.pkts, "log",
                         NoAfter, <<>>)

(***************************************************************************)
(* World geometry.  Position::compute_range_azimuth_elevation gives the    *)
(* distance, the azimuth and the elevation; the distance is the Euclidean  *)
(* distance in millimetres, rounded and saturated to u16.  The two angles  *)
(* are not modelled.                                                       *)
(***************************************************************************)
Sq(x) == x * x

\* The integer nearest to the square root of s.
RoundSqrt(s) ==
    CHOOSE r \in 0..(s + 1) :
        (r = 0 \/ Sq(2 * r - 1) <= 4 * s) /\ 4 * s < Sq(2 * r + 1)

Distance(a, b) ==
    Min(RoundSqrt(Sq(b[1] - a[1]) + Sq(b[2] - a[2]) + Sq(b[3] - a[3])), 65535)

(***************************************************************************)
(* Pica::ranging                                                           *)
(***************************************************************************)
\* Session::get_dst_mac_addresses: the destination list the session was
\* configured with.
get_dst_mac_addresses(session) == session.dst_mac_addresses

\* ShortAddressTwoWayRangingMeasurement { .. } for an anchor at the
\* destination address; the angles are not modelled.
Measurement(address, position, anchor_position) ==
    [mac_address |-> address,
     status |-> "Ok",
     nlos |-> 0,
     distance |-> Distance(position, anchor_position),
     aoa_azimuth_fom |-> 100,
     aoa_elevation_fom |-> 100,
     aoa_destination_azimuth_fom |-> 100,
     aoa_destination_elevation_fom |-> 100,
     slot_index |-> 0]

\* self.anchors.get(mac_address): only an anchor is a destination.
Resolve(dev, mac) ==
    IF mac \in DOMAIN anchors THEN <<anchors[mac].position>> ELSE <<>>

\* The for_each over the destination list: one measurement for each
\* destination that is an anchor, in the order of the list.
RECURSIVE Measurements(_, _)
Measurements(dev, dst) ==
    IF dst = <<>> THEN <<>>
    ELSE LET found == Resolve(dev, Head(dst)) IN
         (IF found = <<>> THEN <<>>
          ELSE <<Measurement(Head(dst).addr, dev.position, found[1])>>)
         \o Measurements(dev, Tail(dst))

\* MacAddress::Extend(_) => unimplemented!() for a destination that is an
\* anchor.
Unimplemented(dst) ==
    \E i \in 1..Len(dst) : dst[i] \in DOMAIN anchors /\ dst[i].tag = "Extend"

\* get_device(..).unwrap() and get_session(..).unwrap(): a handle or a
\* session id that is not in its table is a panic.  The state of the
\* session is not looked at.  The notification carries the sequence number
\* the session has, which is incremented once the send has completed; a
\* failed send is unwrapped.
ranging(h, sid) ==
    /\ emitted' = <<>>
    /\ reply' = NoReply
    /\ UNCHANGED <<anchors, counter, conn, wire, added, removed>>
    /\ IF h \notin DOMAIN devices \/ sid \notin DOMAIN devices[h].sessions
       THEN /\ orch' = Panicked
            /\ sent' = <<>>
            /\ UNCHANGED <<devices, outq>>
       ELSE LET dst == get_dst_mac_addresses(devices[h].sessions[sid]) IN
            IF Unimplemented(dst)
            THEN /\ orch' = Panicked
                 /\ sent' = <<>>
                 /\ UNCHANGED <<devices, outq>>
            ELSE deliver(devices, h,
                         <<RangeDataNtf(sid,
                              devices[h].sessions[sid].sequence_number,
                              Measurements(devices[h], dst))>>,
                         "unwrap", [kind |-> "seq", sid |-> sid], <<>>)

(***************************************************************************)
(* Lookups by MAC address.                                                 *)
(***************************************************************************)
\* The handles of the devices that have the MAC address.
HandlesOf(mac) == {h \in DOMAIN devices : devices[h].mac_address = mac}

\* Pica::get_category: the anchor table is looked at first.
get_category(mac) ==
    IF mac \in DOMAIN anchors THEN "Anchor"
    ELSE IF HandlesOf(mac) /= {} THEN "Uci"
    ELSE "None"

\* One-shot replies (PicaCommandStatus).
StatusOk == [to |-> "Status", status |-> "Ok"]
StatusError(err, mac) == [to |-> "Status", status |-> "Error", err |-> err, mac |-> mac]

\* pica_cmd_rsp_tx.send(status): a dropped receiver is logged.
Replied(alive, status) == IF alive THEN status ELSE NoReply

\* A set of handles or of MAC addresses, as a sequence in some order.
RECURSIVE AsSeq(_)
AsSeq(S) ==
    IF S = {} THEN <<>>
    ELSE LET x == CHOOSE y \in S : TRUE IN <<x>> \o AsSeq(S \ {x})

RECURSIVE Flatten(_)
Flatten(ss) == IF ss = <<>> THEN <<>> ELSE Head(ss) \o Flatten(Tail(ss))

(***************************************************************************)
(* Pica::update_position                                                   *)
(***************************************************************************)
NeighborUpdated(src, dst, distance) ==
    [event |-> "NeighborUpdated", source_device |-> src,
     destination_device |-> dst, distance |-> distance]

\* (an update_neighbors whose remote range is taken from the origin)
update_neighbors_from_origin(mac, position, category, other_mac, other_position) ==
    IF mac /= other_mac
    THEN <<NeighborUpdated(WebDevice(category, mac, position),
                           WebDevice(category, other_mac, other_position),
                           Distance(position, other_position)),
           NeighborUpdated(WebDevice(category, other_mac, other_position),
                           WebDevice(category, mac, position),
                           Distance(ZeroPos, position))>>
    ELSE <<>>

\* The closure update_neighbors: both events carry the category it is
\* called with.
update_neighbors(mac, position, category, other_mac, other_position) ==
    IF mac /= other_mac
    THEN <<NeighborUpdated(WebDevice(category, mac, position),
                           WebDevice(category, other_mac, other_position),
                           Distance(position, other_position)),
           NeighborUpdated(WebDevice(category, other_mac, other_position),
                           WebDevice(category, mac, position),
                           Distance(other_position, position))>>
    ELSE <<>>

\* The events update_position sends, over the tables devs and anchs.
update_position(devs, anchs, mac, position, category) ==
    LET hs == AsSeq(DOMAIN devs)
        ms == AsSeq(DOMAIN anchs)
    IN
    <<DeviceUpdated(WebDevice(category, mac, position))>>
    \o Flatten([i \in DOMAIN hs |->
            update_neighbors(mac, position, "Uci", devs[hs[i]].mac_address,
                             devs[hs[i]].position)])
    \o Flatten([i \in DOMAIN ms |->
            update_neighbors(mac, position, "Anchor", anchs[ms[i]].mac_address,
                             anchs[ms[i]].position)])

\* assert!(local.0 == remote.0) in update_neighbors.
AssertsHold(events) ==
    \A i \in DOMAIN events :
        events[i].event = "NeighborUpdated" =>
            events[i].distance =
                Distance(events[i].destination_device.position,
                         events[i].source_device.position)

(***************************************************************************)
(* Pica::set_position                                                      *)
(***************************************************************************)
set_position(mac, position, alive) ==
    LET hs == HandlesOf(mac)
        h == CHOOSE x \in hs : TRUE
        devs == IF hs /= {} THEN [devices EXCEPT ![h].position = position]
                ELSE devices
        anchs == IF hs = {} /\ mac \in DOMAIN anchors
                 THEN [anchors EXCEPT ![mac].position = position]
                 ELSE anchors
        found == hs /= {} \/ mac \in DOMAIN anchors
        events == IF found
                  THEN update_position(devs, anchs, mac, position,
                                       get_category(mac))
                  ELSE <<>>
    IN
    /\ devices' = devs
    /\ anchors' = anchs
    /\ emitted' = events
    /\ IF AssertsHold(events)
       THEN /\ orch' = Receiving
            /\ reply' = Replied(alive, IF found THEN StatusOk
                                       ELSE StatusError("DeviceNotFound", mac))
       ELSE /\ orch' = Panicked
            /\ reply' = NoReply
    /\ sent' = <<>>
    /\ UNCHANGED <<counter, outq, conn, wire, added, removed>>

(***************************************************************************)
(* Pica::init_uci_device                                                   *)
(***************************************************************************)
\* (an init_uci_device that gives the MAC to the oldest live device when no
\* device has it)
init_uci_device_renaming(mac, position, alive) ==
    LET hs == IF HandlesOf(mac) /= {} THEN HandlesOf(mac) ELSE DOMAIN devices
        h == CHOOSE x \in hs : \A y \in hs : x <= y
    IN
    /\ IF hs /= {}
       THEN /\ devices' = [devices EXCEPT ![h].mac_address = mac,
                                          ![h].position = position]
            /\ reply' = Replied(alive, StatusOk)
       ELSE /\ UNCHANGED devices
            /\ reply' = Replied(alive, StatusError("DeviceNotFound", mac))
    /\ emitted' = <<>>
    /\ sent' = <<>>
    /\ orch' = Receiving
    /\ UNCHANGED <<anchors, counter, outq, conn, wire, added, removed>>

init_uci_device(mac, position, alive) ==
    LET hs == HandlesOf(mac)
        h == CHOOSE x \in hs : TRUE
    IN
    /\ IF hs /= {}
       THEN /\ devices' = [devices EXCEPT ![h].mac_address = mac,
                                          ![h].position = position]
            /\ reply' = Replied(alive, StatusOk)
       ELSE /\ UNCHANGED devices
            /\ reply' = Replied(alive, StatusError("DeviceNotFound", mac))
    /\ emitted' = <<>>
    /\ sent' = <<>>
    /\ orch' = Receiving
    /\ UNCHANGED <<anchors, counter, outq, conn, wire, added, removed>>

(***************************************************************************)
(* Pica::create_anchor                                                     *)
(***************************************************************************)
\* (a create_anchor that looks only at the anchor table)
create_anchor_over_device(mac, position, alive) ==
    /\ IF mac \in DOMAIN anchors
       THEN /\ reply' = Replied(alive, StatusError("AddAnchorFailed", mac))
            /\ emitted' = <<>>
            /\ UNCHANGED anchors
       ELSE /\ emitted' = <<DeviceAdded(WebDevice("Anchor", mac, position))>>
            /\ anchors' = Insert(anchors, mac,
                                 [mac_address |-> mac, position |-> position])
            /\ reply' = Replied(alive, StatusOk)
    /\ sent' = <<>>
    /\ orch' = Receiving
    /\ UNCHANGED <<devices, counter, outq, conn, wire, added, removed>>

create_anchor(mac, position, alive) ==
    /\ IF get_category(mac) /= "None"
       THEN /\ reply' = Replied(alive, StatusError("AddAnchorFailed", mac))
            /\ emitted' = <<>>
            /\ UNCHANGED anchors
       ELSE /\ emitted' = <<DeviceAdded(WebDevice("Anchor", mac, position))>>
            /\ anchors' = Insert(anchors, mac,
                                 [mac_address |-> mac, position |-> position])
            /\ reply' = Replied(alive, StatusOk)
    /\ sent' = <<>>
    /\ orch' = Receiving
    /\ UNCHANGED <<devices, counter, outq, conn, wire, added, removed>>

(***************************************************************************)
(* Pica::destroy_anchor                                                    *)
(***************************************************************************)
\* (a destroy_anchor that removes a device of that MAC when no anchor has it)
destroy_anchor_or_device(mac, alive) ==
    LET hs == HandlesOf(mac) IN
    /\ IF mac \notin DOMAIN anchors
       THEN /\ reply' = Replied(alive, IF hs = {}
                                       THEN StatusError("DeviceNotFound", mac)
                                       ELSE StatusOk)
            /\ emitted' = <<>>
            /\ devices' = [h \in DOMAIN devices \ hs |-> devices[h]]
            /\ UNCHANGED anchors
       ELSE /\ emitted' = <<DeviceRemoved(WebDevice("Anchor", mac, ZeroPos))>>
            /\ anchors' = Remove(anchors, mac)
            /\ reply' = Replied(alive, StatusOk)
            /\ UNCHANGED devices
    /\ sent' = <<>>
    /\ orch' = Receiving
    /\ UNCHANGED <<counter, outq, conn, wire, added, removed>>

destroy_anchor(mac, alive) ==
    /\ IF mac \notin DOMAIN anchors
       THEN /\ reply' = Replied(alive, StatusError("DeviceNotFound", mac))
            /\ emitted' = <<>>
            /\ UNCHANGED anchors
       ELSE /\ emitted' = <<DeviceRemoved(WebDevice("Anchor", mac, ZeroPos))>>
            /\ anchors' = Remove(anchors, mac)
            /\ reply' = Replied(alive, StatusOk)
    /\ sent' = <<>>
    /\ orch' = Receiving
    /\ UNCHANGED <<devices, counter, outq, conn, wire, added, removed>>

(***************************************************************************)
(* Pica::run: take the oldest message of the inbox and handle it.          *)
(***************************************************************************)
Dispatch(m) ==
    CASE m.type = "Connect" -> connect
      [] m.type = "Disconnect" -> disconnect(m.h)
      [] m.type = "Ranging" -> ranging(m.h, m.sid)
      [] m.type = "Command" -> command(m.h, m.cmd)
      [] m.type = "GetState" -> get_state(m.alive)
      [] m.type = "SetPosition" -> set_position(m.mac, m.pos, m.alive)
      [] m.type = "InitUciDevice" -> init_uci_device(m.mac, m.pos, m.alive)
      [] m.type = "CreateAnchor" -> create_anchor(m.mac, m.pos, m.alive)
      [] m.type = "DestroyAnchor" -> destroy_anchor(m.mac, m.alive)

Handled(m) == [tick |-> 1 - last.tick, msg |-> m]

run ==
    /\ orch.pc = "recv"
    /\ inbox /= <<>>
    /\ Dispatch(Head(inbox))
    /\ inbox' = Tail(inbox)
    /\ last' = Handled(Head(inbox))

(***************************************************************************)
(* The messages of the inbox (enum PicaCommand).                           *)
(***************************************************************************)
ConnectMsg == [type |-> "Connect"]
DisconnectMsg(h) == [type |-> "Disconnect", h |-> h]
RangingMsg(h, sid) == [type |-> "Ranging", h |-> h, sid |-> sid]
CommandMsg(h, cmd) == [type |-> "Command", h |-> h, cmd |-> cmd]
GetStateMsg(alive) == [type |-> "GetState", alive |-> alive]
SetPositionMsg(mac, pos, alive) ==
    [type |-> "SetPosition", mac |-> mac, pos |-> pos, alive |-> alive]
InitUciDeviceMsg(mac, pos, alive) ==
    [type |-> "InitUciDevice", mac |-> mac, pos |-> pos, alive |-> alive]
CreateAnchorMsg(mac, pos, alive) ==
    [type |-> "CreateAnchor", mac |-> mac, pos |-> pos, alive |-> alive]
DestroyAnchorMsg(mac, alive) ==
    [type |-> "DestroyAnchor", mac |-> mac, alive |-> alive]

HasRoom == Len(inbox) < InboxCap

(***************************************************************************)
(* The connection task (the task spawned by Pica::connect).                *)
(***************************************************************************)
\* What one read of the socket can hold, by what parse_uci_packet makes of
\* it: a command, a fragment of a command (packet boundary flag set), a
\* command the parser rejects, a response or notification, and a single
\* byte, for which the parser fails and bytes[1] is out of bounds.
Pdu(kind, op, sid) == [kind |-> kind, op |-> op, sid |-> sid]

CorePdus ==
    {Pdu(kind, "CoreGetDeviceInfo", 0) :
        kind \in {"command", "fragment", "rejected", "noncommand", "onebyte"}}

Cmd(op, sid, id, complete) ==
    [op |-> op, sid |-> sid, id |-> id, complete |-> complete]

\* The fields of the header, as parse_uci_packet reads them from the first
\* two bytes.
MessageType_from_u8(n) ==
    CASE n = 1 -> "Command"
      [] n = 2 -> "Response"
      [] n = 3 -> "Notification"
      [] OTHER -> "None"

\* The group ids of the GroupId enumeration.
KnownGroups == (0..3) \cup (9..15)

\* The (group, opcode) pairs the bytes of the model use that the generated
\* parser knows: CORE_GET_DEVICE_INFO.
KnownOps == {<<0, 2>>}

\* UciPacketPacket::parse: the bytes are one whole frame (a header of four
\* bytes, whose fourth is the length of the payload that follows) of a known
\* message type, group and opcode, or the parse fails.
UciPacketPacket_parse(bytes) ==
    IF Len(bytes) < 4
    THEN [result |-> "Err"]
    ELSE LET message_type == (bytes[1] \div 32) % 8
             group_id == bytes[1] % 16
             opcode_id == bytes[2] % 64
         IN
         IF /\ Len(bytes) = 4 + bytes[4]
            /\ MessageType_from_u8(message_type) /= "None"
            /\ <<group_id, opcode_id>> \in KnownOps
         THEN [result |-> "Ok", message_type |-> message_type,
               complete |-> (bytes[1] \div 16) % 2 = 0]
         ELSE [result |-> "Err"]

\* The Err arm of parse_uci_packet: the header fields are read from
\* bytes[0] and bytes[1] (out of bounds for a single byte) before the
\* message type is looked at; a command gets the five-byte response, any
\* other message type is skipped.
parse_error(bytes, id) ==
    IF Len(bytes) < 2
    THEN [result |-> "Panic"]
    ELSE LET message_type == (bytes[1] \div 32) % 8
             group_id == bytes[1] % 16
             opcode_id == bytes[2] % 64
         IN
         IF MessageType_from_u8(message_type) = "Command"
         THEN [result |-> "Err",
               response |-> [kind |-> "rsp", op |-> "Unknown", id |-> id,
                             status |-> IF group_id \in KnownGroups
                                        THEN "UnknownOid" ELSE "UnknownGid",
                             header |-> <<64 + group_id, opcode_id, 0, 1>>]]
         ELSE [result |-> "Skip"]

\* parse_uci_packet on the bytes of one read.
parse_bytes(bytes, id) ==
    LET packet == UciPacketPacket_parse(bytes) IN
    IF packet.result = "Err"
    THEN parse_error(bytes, id)
    ELSE IF MessageType_from_u8(packet.message_type) = "Command"
         THEN [result |-> "Ok",
               cmd |-> Cmd("CoreGetDeviceInfo", 0, id, packet.complete)]
         ELSE [result |-> "Skip"]

parse_uci_packet(pdu, id) ==
    CASE pdu.kind = "command" ->
            [result |-> "Ok", cmd |-> Cmd(pdu.op, pdu.sid, id, TRUE)]
      [] pdu.kind = "fragment" ->
            [result |-> "Ok", cmd |-> Cmd(pdu.op, pdu.sid, id, FALSE)]
      [] pdu.kind = "rejected" ->
            [result |-> "Err",
             response |-> [kind |-> "rsp", op |-> "Unknown", id |-> id,
                           status |-> "UnknownOid"]]
      [] pdu.kind = "noncommand" -> [result |-> "Skip"]
      [] pdu.kind = "onebyte" -> [result |-> "Panic"]
      [] pdu.kind = "bytes" -> parse_bytes(pdu.bytes, id)

\* pica_tx.send(msg).await by task t of device h: the message goes to the
\* back of the inbox when the inbox has room; the task waits otherwise.
\* The task ends once its Disconnect is sent.
Sent(t, msg) ==
    [t EXCEPT !.pc = IF msg.type = "Disconnect" THEN "exited" ELSE "loop",
              !.disc = IF msg.type = "Disconnect" THEN @ + 1 ELSE @,
              !.msg = NoMsg]

post(h, t, msg) ==
    IF HasRoom
    THEN /\ inbox' = Append(inbox, msg)
         /\ conn' = [conn EXCEPT ![h] = Sent(t, msg)]
    ELSE /\ inbox' = inbox
         /\ conn' = [conn EXCEPT ![h] = [t EXCEPT !.pc = "send", !.msg = msg]]

\* The loop's break: send Disconnect(handle), then end.
leave(h, t) == post(h, t, DisconnectMsg(h))

\* connection.read() gives Ok(Some(packet)): the task parses the packet and
\* sends the command to the orchestrator, or writes the parser's error
\* response to the socket (unwrapping a failed write), or skips it.
on_packet(h, t, pdu, wrote) ==
    LET p == parse_uci_packet(pdu, t.n) IN
    CASE p.result = "Ok" ->
            /\ wrote
            /\ post(h, t, CommandMsg(h, p.cmd))
            /\ UNCHANGED wire
      [] p.result = "Err" ->
            /\ IF wrote
               THEN /\ wire' = [wire EXCEPT ![h] =
                                   Append(@, [by |-> "task", pkt |-> p.response])]
                    /\ conn' = [conn EXCEPT ![h] = t]
               ELSE /\ conn' = [conn EXCEPT ![h] = [t EXCEPT !.pc = "panicked"]]
                    /\ UNCHANGED wire
            /\ UNCHANGED inbox
      [] p.result = "Skip" ->
            /\ wrote
            /\ conn' = [conn EXCEPT ![h] = t]
            /\ UNCHANGED <<inbox, wire>>
      [] p.result = "Panic" ->
            /\ wrote
            /\ conn' = [conn EXCEPT ![h] = [t EXCEPT !.pc = "panicked"]]
            /\ UNCHANGED <<inbox, wire>>

ConnReadPdu(h, pdu, wrote) ==
    /\ h \in DOMAIN conn
    /\ conn[h].pc = "loop"
    /\ on_packet(h, [conn[h] EXCEPT !.n = @ + 1], pdu, wrote)
    /\ UNCHANGED <<devices, anchors, counter, orch, outq, emitted, added,
                   removed, sent, reply, last>>

\* The host writes bytes to the socket of device h.
HostWrite(h, bytes) ==
    /\ h \in DOMAIN conn
    /\ conn[h].pc = "loop"
    /\ conn' = [conn EXCEPT ![h].socket = @ \o bytes]
    /\ UNCHANGED <<devices, anchors, counter, inbox, orch, outq, wire, emitted,
                   added, removed, sent, reply, last>>

\* Connection::read: read_buf appends what the socket delivers (k bytes, at
\* least one, of those the host wrote) to the buffer, and split_to takes
\* the whole buffer as the packet, leaving the buffer empty.
Connection_read(socket, k) ==
    [packet |-> SubSeq(socket, 1, k),
     socket |-> SubSeq(socket, k + 1, Len(socket))]

\* The inbound branch of the task with the bytes of the socket.
ConnReadBytes(h, k, wrote) ==
    /\ h \in DOMAIN conn
    /\ conn[h].pc = "loop"
    /\ k \in 1..Len(conn[h].socket)
    /\ LET r == Connection_read(conn[h].socket, k) IN
       on_packet(h, [conn[h] EXCEPT !.n = @ + 1, !.socket = r.socket],
                 [kind |-> "bytes", bytes |-> r.packet], wrote)
    /\ UNCHANGED <<devices, anchors, counter, orch, outq, emitted, added,
                   removed, sent, reply, last>>

\* connection.read() gives Ok(None) (end of file) or Err: break.
ConnReadEnd(h) ==
    /\ h \in DOMAIN conn
    /\ conn[h].pc = "loop"
    /\ leave(h, conn[h])
    /\ UNCHANGED <<devices, anchors, counter, orch, outq, wire, emitted,
                   added, removed, sent, reply, last>>

\* packet_rx.recv() gives the oldest packet of the outbound queue, which
\* the task writes to the socket; a failed write is a break.  The
\* transcript of the socket is kept where log is set.
Dequeue(q) == [pkt |-> Head(q), rest |-> Tail(q)]

ConnWrite(h, wrote, log) ==
    /\ h \in DOMAIN conn
    /\ conn[h].pc = "loop"
    /\ outq[h] /= <<>>
    /\ LET d == Dequeue(outq[h]) IN
       /\ outq' = [outq EXCEPT ![h] = d.rest]
       /\ IF wrote
          THEN /\ wire' = IF log
                          THEN [wire EXCEPT ![h] =
                                   Append(@, [by |-> "queue", pkt |-> d.pkt])]
                          ELSE wire
               /\ UNCHANGED <<inbox, conn>>
          ELSE /\ leave(h, conn[h])
               /\ UNCHANGED wire
    /\ UNCHANGED <<devices, anchors, counter, orch, emitted, added, removed,
                   sent, reply, last>>

\* The task, suspended in pica_tx.send, goes on when the inbox has room.
ConnSend(h) ==
    /\ h \in DOMAIN conn
    /\ conn[h].pc = "send"
    /\ HasRoom
    /\ post(h, conn[h], conn[h].msg)
    /\ UNCHANGED <<devices, anchors, counter, orch, outq, wire, emitted,
                   added, removed, sent, reply, last>>

(***************************************************************************)
(* The other producers of the inbox.                                       *)
(***************************************************************************)
Count(q, type) == Cardinality({i \in DOMAIN q : q[i].type = type})

Post(msg) ==
    /\ HasRoom
    /\ inbox' = Append(inbox, msg)
    /\ UNCHANGED <<devices, anchors, counter, orch, outq, conn, wire, emitted,
                   added, removed, sent, reply, last>>

\* The TCP listener accepts a socket and sends Connect(socket).
Listener(max) ==
    /\ counter + Count(inbox, "Connect") < max
    /\ Post(ConnectMsg)

\* The web server sends GetState with a one-shot sender; the requester may
\* have dropped the receiver by the time the message is handled.
Observer(alive) == Post(GetStateMsg(alive))

(***************************************************************************)
(* The orchestrator and the connection tasks, run concurrently.            *)
(***************************************************************************)
\* The host has written fewer than max PDUs on the connection of device h.
Budget(h, max) == h \in DOMAIN conn /\ conn[h].n < max

Handles == 0..(MaxConnects - 1)

Next ==
    \/ Listener(MaxConnects)
    \/ \E alive \in BOOLEAN : Observer(alive)
    \/ \E h \in Handles, pdu \in CorePdus, wrote \in BOOLEAN :
          Budget(h, MaxPdus) /\ ConnReadPdu(h, pdu, wrote)
    \/ \E h \in Handles : ConnReadEnd(h)
    \/ \E h \in Handles, wrote \in BOOLEAN : ConnWrite(h, wrote, TRUE)
    \/ \E h \in Handles : ConnSend(h)
    \/ run
    \/ resume

Spec == Init /\ [][Next]_vars

(***************************************************************************)
(* The same tasks with a host that writes commands, some of which the      *)
(* parser rejects, on a socket that does not fail.                         *)
(***************************************************************************)
OrderHandles == 0..(OrderConnects - 1)

OrderPdus ==
    {Pdu(kind, "CoreGetDeviceInfo", 0) :
        kind \in {"command", "rejected", "noncommand"}}

NextOrder ==
    \/ Listener(OrderConnects)
    \/ \E h \in OrderHandles, pdu \in OrderPdus :
          Budget(h, MaxOrderPdus) /\ ConnReadPdu(h, pdu, TRUE)
    \/ \E h \in OrderHandles : ConnWrite(h, TRUE, TRUE)
    \/ \E h \in OrderHandles : ConnSend(h)
    \/ run
    \/ resume

SpecOrder == Init /\ [][NextOrder]_vars

(***************************************************************************)
(* The orchestrator alone: a message is sent to the empty inbox and        *)
(* received at once.                                                       *)
(***************************************************************************)
receive(m) ==
    /\ orch.pc = "recv"
    /\ inbox = <<>>
    /\ Dispatch(m)
    /\ last' = Handled(m)
    /\ UNCHANGED inbox

\* Connect and Disconnect only, up to MaxHandles connections.  A
\* Disconnect(h) may come late and more than once.
NextDevices ==
    \/ counter < MaxHandles /\ receive(ConnectMsg)
    \/ \E h \in 0..(MaxHandles - 1) : h < counter /\ receive(DisconnectMsg(h))

SpecDevices == Init /\ [][NextDevices]_vars

\* The control messages of the web server, with connections and
\* disconnections.
Macs == {ShortMac(n) : n \in 0..(WorldMacs - 1)}
Positions == {ZeroPos, <<3, 4, 0>>}

NextWorld ==
    \/ counter < WorldConnects /\ receive(ConnectMsg)
    \/ \E h \in 0..(WorldConnects - 1) : h < counter /\ receive(DisconnectMsg(h))
    \/ \E alive \in BOOLEAN : receive(GetStateMsg(alive))
    \/ \E mac \in Macs, pos \in Positions :
          receive(SetPositionMsg(mac, pos, TRUE))
    \/ \E mac \in Macs, pos \in Positions :
          receive(InitUciDeviceMsg(mac, pos, TRUE))
    \/ \E mac \in Macs, pos \in Positions :
          receive(CreateAnchorMsg(mac, pos, TRUE))
    \/ \E mac \in Macs : receive(DestroyAnchorMsg(mac, TRUE))

SpecWorld == Init /\ [][NextWorld]_vars

(***************************************************************************)
(* Session commands, one at a time: the host sends a command when it has   *)
(* read every packet sent to it, and the socket does not fail.  The        *)
(* ranging task of an Active session ticks between the commands.           *)
(***************************************************************************)
SessionIds == 1..MaxSessionIds

SessionOps ==
    {"SessionInit", "SessionDeinit", "SessionSetAppConfig",
     "SessionGetAppConfig", "SessionGetCount", "SessionGetState",
     "SessionUpdateControllerMulticastList", "RangeStart", "RangeStop"}

AllRead == \A h \in DOMAIN devices : outq[h] = <<>>

NextSession ==
    \/ counter = 0 /\ receive(ConnectMsg)
    \/ \E op \in SessionOps, sid \in SessionIds :
          /\ 0 \in DOMAIN devices
          /\ AllRead
          /\ receive(CommandMsg(0, Cmd(op, sid, 0, TRUE)))
    \/ \E sid \in SessionIds :
          /\ 0 \in DOMAIN devices
          /\ sid \in DOMAIN devices[0].sessions
          /\ devices[0].sessions[sid].state = "Active"
          /\ AllRead
          /\ receive(RangingMsg(0, sid))
    \/ ConnWrite(0, TRUE, FALSE)

SpecSession == Init /\ [][NextSession]_vars

(***************************************************************************)
(* One session of a device with its ranging task, run concurrently with    *)
(* the connection task and the orchestrator.  The ranging task of a        *)
(* session is started by RANGE_START and sends Ranging(handle, session_id) *)
(* at each tick while the session is Active.                               *)
(***************************************************************************)
RangingPdus ==
    {Pdu("command", op, 1) :
        op \in {"SessionInit", "SessionSetAppConfig", "RangeStart", "RangeStop",
                "SessionDeinit"}}

RangingTick(h, sid) ==
    /\ h \in DOMAIN devices
    /\ sid \in DOMAIN devices[h].sessions
    /\ devices[h].sessions[sid].state = "Active"
    /\ devices[h].sessions[sid].sequence_number + Count(inbox, "Ranging") < MaxTicks
    /\ Post(RangingMsg(h, sid))

NextRanging ==
    \/ Listener(1)
    \/ \E pdu \in RangingPdus :
          Budget(0, MaxRangingPdus) /\ ConnReadPdu(0, pdu, TRUE)
    \/ ConnReadEnd(0)
    \/ ConnWrite(0, TRUE, FALSE)
    \/ ConnSend(0)
    \/ RangingTick(0, 1)
    \/ run
    \/ resume

SpecRanging == Init /\ [][NextRanging]_vars

(***************************************************************************)
(* The life cycle of one session: the host sends SESSION_INIT,             *)
(* SESSION_SET_APP_CONFIG and SESSION_DEINIT for session 1 in any order,   *)
(* without waiting for the answers, and the transcript of the socket is    *)
(* kept.                                                                   *)
(***************************************************************************)
PathPdus ==
    {Pdu("command", op, 1) :
        op \in {"SessionInit", "SessionSetAppConfig", "SessionDeinit"}}

NextPath ==
    \/ Listener(1)
    \/ \E pdu \in PathPdus :
          Budget(0, MaxPathPdus) /\ ConnReadPdu(0, pdu, TRUE)
    \/ ConnWrite(0, TRUE, TRUE)
    \/ ConnSend(0)
    \/ run
    \/ resume

SpecPath == Init /\ [][NextPath]_vars

(***************************************************************************)
(* Ranging in a world of anchors and devices: device 0 configures session  *)
(* 1 with a destination list and starts it, device 1 and the anchors are   *)
(* the destinations.  Messages are handled one at a time and the           *)
(* connection tasks write what is sent to them.                            *)
(***************************************************************************)
MeasureAnchors == {ShortMac(1), ShortMac(5), ExtendMac(6)}

DstLists ==
    {<<ShortMac(5)>>, <<ShortMac(1)>>, <<ExtendMac(6)>>,
     <<ShortMac(5), ShortMac(1), ShortMac(7)>>}

MeasureCmds ==
    {Cmd(op, 1, 0, TRUE) : op \in {"SessionInit", "RangeStart"}}
    \cup {[op |-> "SessionSetAppConfig", sid |-> 1, id |-> 0,
           complete |-> TRUE, dst |-> dst] : dst \in DstLists}

NextMeasure ==
    \/ counter < 2 /\ receive(ConnectMsg)
    \/ \E mac \in MeasureAnchors, pos \in Positions :
          receive(CreateAnchorMsg(mac, pos, TRUE))
    \/ \E cmd \in MeasureCmds :
          /\ 0 \in DOMAIN devices
          /\ AllRead
          /\ receive(CommandMsg(0, cmd))
    \/ /\ 0 \in DOMAIN devices
       /\ 1 \in DOMAIN devices[0].sessions
       /\ devices[0].sessions[1].state = "Active"
       /\ AllRead
       /\ receive(RangingMsg(0, 1))
    \/ \E h \in {0, 1} : ConnWrite(h, TRUE, FALSE)

SpecMeasure == Init /\ [][NextMeasure]_vars

(***************************************************************************)
(* One connection whose host writes whole PDUs, which the socket delivers  *)
(* to the task in reads of any length.                                     *)
(***************************************************************************)
\* CORE_GET_DEVICE_INFO_CMD; a command of group Core with an unused opcode;
\* a command of an unknown group; CORE_GET_DEVICE_INFO_RSP; a notification
\* and a PDU of a reserved message type with an unused opcode.
HostPdus ==
    {<<32, 2, 0, 0>>, <<32, 63, 0, 0>>, <<36, 2, 0, 0>>,
     <<64, 2, 0, 0>>, <<96, 63, 0, 0>>, <<0, 63, 0, 0>>}

NextBytes ==
    \/ Listener(1)
    \/ \E bytes \in HostPdus :
          /\ Budget(0, MaxReads)
          /\ Len(conn[0].socket) + Len(bytes) <= MaxSocketBytes
          /\ HostWrite(0, bytes)
    \/ \E k \in 1..MaxSocketBytes :
          Budget(0, MaxReads) /\ ConnReadBytes(0, k, TRUE)
    \/ ConnWrite(0, TRUE, TRUE)
    \/ run

SpecBytes == Init /\ [][NextBytes]_vars

(***************************************************************************)
(* The poses of one device and of the anchors, moved over positions on     *)
(* both sides of the origin.                                               *)
(***************************************************************************)
GeoMacs == {ShortMac(0), ShortMac(1)}
GeoPositions == {<<x, y, 0>> : x \in {-MaxCoord, MaxCoord}, y \in {0, MaxCoord}}

NextGeometry ==
    \/ counter < 1 /\ receive(ConnectMsg)
    \/ \E mac \in GeoMacs, pos \in GeoPositions :
          receive(SetPositionMsg(mac, pos, TRUE))
    \/ \E mac \in GeoMacs, pos \in GeoPositions :
          receive(CreateAnchorMsg(mac, pos, TRUE))
    \/ \E mac \in GeoMacs : receive(DestroyAnchorMsg(mac, TRUE))

SpecGeometry == Init /\ [][NextGeometry]_vars

(***************************************************************************)
(* C1.  The orchestrator never waits on a device's outbound queue; in      *)
(* particular it is never suspended in a send on the full outbound queue   *)
(* of a device whose connection task is suspended sending a Command into   *)
(* the full inbox.                                                         *)
(***************************************************************************)
C1_NoMutualWait ==
    ~(/\ orch.pc = "send"
      /\ Len(outq[orch.h]) = OutCap
      /\ conn[orch.h].pc = "send"
      /\ conn[orch.h].msg.type = "Command"
      /\ Len(inbox) = InboxCap)

(***************************************************************************)
(* C3.  Whatever messages it has handled, the orchestrator loop is still   *)
(* running: no failure to deliver an output ends it.                       *)
(***************************************************************************)
C3_OrchestratorRuns == orch.pc /= "panicked"

(***************************************************************************)
(* C4.  A connection task sends Disconnect(handle) at most once, and a     *)
(* task that has ended has sent it exactly once.                           *)
(***************************************************************************)
C4_DisconnectOnce ==
    \A h \in DOMAIN conn :
        /\ conn[h].disc <= 1
        /\ conn[h].pc \in {"exited", "panicked"} => conn[h].disc = 1

(***************************************************************************)
(* C6.  As claimed: on one connection every response, whoever writes it,   *)
(* is written in the order of the commands.  As amended: the responses     *)
(* that go through the orchestrator and the outbound queue are written in  *)
(* the order of their commands.                                            *)
(***************************************************************************)
Ascending(ids) == \A i, j \in DOMAIN ids : i < j => ids[i] < ids[j]

Ids(w) == [i \in DOMAIN w |-> w[i].pkt.id]

RECURSIVE FromQueue(_)
FromQueue(w) ==
    IF w = <<>> THEN <<>>
    ELSE IF Head(w).by = "queue"
    THEN <<Head(w)>> \o FromQueue(Tail(w))
    ELSE FromQueue(Tail(w))

C6_ResponsesInCommandOrder == \A h \in DOMAIN wire : Ascending(Ids(wire[h]))

C6_QueuedResponsesInOrder ==
    \A h \in DOMAIN wire : Ascending(Ids(FromQueue(wire[h])))

\* Two responses from the queue, in order, and between them the error
\* response to a later command.
C6_Witness ==
    \E h \in DOMAIN wire :
        /\ Len(wire[h]) = 3
        /\ Ids(wire[h]) = <<1, 3, 2>>
        /\ wire[h][2].by = "task"

(***************************************************************************)
(* C5.  Handling Disconnect(h) for a live handle removes that device and   *)
(* no other, leaves the anchors alone and emits one DeviceRemoved event    *)
(* for it; for a handle that is not live it changes nothing and emits no   *)
(* event.  A GetState reply lists the live devices only.  Every device     *)
(* connected so far has had one DeviceAdded event and at most one          *)
(* DeviceRemoved event.                                                    *)
(***************************************************************************)
HandledNow(type) == last'.tick /= last.tick /\ last'.msg.type = type

C5_DisconnectStep ==
    HandledNow("Disconnect") =>
        LET h == last'.msg.h IN
        IF h \in DOMAIN devices
        THEN /\ DOMAIN devices' = DOMAIN devices \ {h}
             /\ \A k \in DOMAIN devices' : devices'[k] = devices[k]
             /\ anchors' = anchors
             /\ emitted' = <<DeviceRemoved(WebDevice("Uci", devices[h].mac_address,
                                                     devices[h].position))>>
             /\ removed'[h] = removed[h] + 1
        ELSE /\ devices' = devices
             /\ anchors' = anchors
             /\ emitted' = <<>>
             /\ removed' = removed

C5_EventCounts ==
    /\ DOMAIN added = 0..(counter - 1)
    /\ \A h \in DOMAIN added :
          /\ added[h] = 1
          /\ removed[h] = IF h \in DOMAIN devices THEN 0 ELSE 1

C5_GetStateLists ==
    reply.to = "GetState" =>
        {d \in reply.val : d.category = "Uci"} =
            {WebDevice("Uci", devices[h].mac_address, devices[h].position) :
                h \in DOMAIN devices}

C5_Disconnect ==
    /\ [][C5_DisconnectStep]_vars
    /\ [](C5_EventCounts /\ C5_GetStateLists)

\* Device 0 has been removed while device 1 and an anchor stay, and a
\* GetState has been answered since.
C5_Witness ==
    /\ 0 \in DOMAIN removed
    /\ removed[0] = 1
    /\ 1 \in DOMAIN devices
    /\ anchors /= <<>>
    /\ reply.to = "GetState"

(***************************************************************************)
(* C7.  No live device has a MAC address that is the key of an anchor.     *)
(***************************************************************************)
C7_MacsDisjoint ==
    \A h \in DOMAIN devices : devices[h].mac_address \notin DOMAIN anchors

(***************************************************************************)
(* C8.  The device table holds at most MAX_DEVICE devices.                 *)
(***************************************************************************)
C8_AtMostMaxDevice == Cardinality(DOMAIN devices) <= MAX_DEVICE

(***************************************************************************)
(* C9.  The counter grows by one with each Connect, every live handle is   *)
(* below it, no handle is assigned twice, and a device leaves the table    *)
(* only when a Disconnect with its own handle is handled.                  *)
(***************************************************************************)
C9_ConnectStep ==
    HandledNow("Connect") =>
        /\ counter' = counter + 1
        /\ DOMAIN devices' = DOMAIN devices \cup {counter}
        /\ counter \notin DOMAIN added

C9_RemovalStep ==
    \A h \in DOMAIN devices :
        h \notin DOMAIN devices' =>
            HandledNow("Disconnect") /\ last'.msg.h = h

C9_HandlesBelowCounter ==
    /\ \A h \in DOMAIN devices : h < counter
    /\ \A h \in DOMAIN added : added[h] = 1

C9_FreshHandles ==
    /\ [][C9_ConnectStep /\ C9_RemovalStep]_vars
    /\ []C9_HandlesBelowCounter

\* Disconnect(0) has come again after device 0 was removed, with the
\* devices connected after it live.
C9_Witness ==
    /\ last.msg = DisconnectMsg(0)
    /\ emitted = <<>>
    /\ DOMAIN devices = {1, 2}

(***************************************************************************)
(* C2.  Handling Ranging(h, sid) when device h is not in the device table, *)
(* or session sid is not in its session table, or the session is not       *)
(* Active, enqueues nothing, changes no device and no session, and leaves  *)
(* the orchestrator receiving.                                             *)
(***************************************************************************)
NoActiveSession(h, sid) ==
    \/ h \notin DOMAIN devices
    \/ sid \notin DOMAIN devices[h].sessions
    \/ devices[h].sessions[sid].state /= "Active"

C2_RangingStep ==
    (HandledNow("Ranging") /\ NoActiveSession(last'.msg.h, last'.msg.sid)) =>
        /\ orch' = Receiving
        /\ sent' = <<>>
        /\ outq' = outq
        /\ devices' = devices

C2_StaleRangingDropped == [][C2_RangingStep]_vars

(***************************************************************************)
(* C10.  SESSION_DEINIT, SESSION_SET_APP_CONFIG and SESSION_GET_STATE for  *)
(* a session id that is not in the device's session table enqueue a        *)
(* response with status SESSION_NOT_EXIST and no session status            *)
(* notification, and leave the session table as it is.                     *)
(***************************************************************************)
NeedsSession == {"SessionDeinit", "SessionSetAppConfig", "SessionGetState"}

C10_Step ==
    HandledNow("Command") =>
        LET h == last'.msg.h
            cmd == last'.msg.cmd
        IN
        (/\ cmd.op \in NeedsSession
         /\ h \in DOMAIN devices
         /\ cmd.sid \notin DOMAIN devices[h].sessions) =>
            /\ Len(sent') = 1
            /\ sent'[1].h = h
            /\ sent'[1].pkt.kind = "rsp"
            /\ sent'[1].pkt.status = "SessionNotExist"
            /\ devices'[h].sessions = devices[h].sessions

C10_SessionNotExist == [][C10_Step]_vars

(***************************************************************************)
(* C11.  SESSION_SET_APP_CONFIG on a session that is Active enqueues a     *)
(* response with status SESSION_ACTIVE and no session status               *)
(* notification, and leaves the session Active.                            *)
(***************************************************************************)
C11_Step ==
    HandledNow("Command") =>
        LET h == last'.msg.h
            cmd == last'.msg.cmd
        IN
        (/\ cmd.op = "SessionSetAppConfig"
         /\ h \in DOMAIN devices
         /\ cmd.sid \in DOMAIN devices[h].sessions
         /\ devices[h].sessions[cmd.sid].state = "Active") =>
            /\ Len(sent') = 1
            /\ sent'[1].pkt.kind = "rsp"
            /\ sent'[1].pkt.status = "SessionActive"
            /\ devices'[h].sessions[cmd.sid].state = "Active"

C11_SetAppConfigOnActive == [][C11_Step]_vars

(***************************************************************************)
(* C12.  An accepted SESSION_INIT, SESSION_SET_APP_CONFIG or               *)
(* SESSION_DEINIT enqueues on the device's queue its response and then     *)
(* one session status notification with the session id, the state the      *)
(* session has entered and reason StateChangeWithSessionManagementCommands;*)
(* a rejected one enqueues its response and no notification.               *)
(***************************************************************************)
Lifecycle == {"SessionInit", "SessionSetAppConfig", "SessionDeinit"}

Accepted(ss, cmd) ==
    CASE cmd.op = "SessionInit" ->
            cmd.sid \notin DOMAIN ss /\ Cardinality(DOMAIN ss) < MAX_SESSION
      [] cmd.op = "SessionSetAppConfig" ->
            cmd.sid \in DOMAIN ss /\ ss[cmd.sid].state = "Init"
      [] cmd.op = "SessionDeinit" -> cmd.sid \in DOMAIN ss

Entered(op) ==
    CASE op = "SessionInit" -> "Init"
      [] op = "SessionSetAppConfig" -> "Idle"
      [] op = "SessionDeinit" -> "Deinit"

C12_Step ==
    HandledNow("Command") =>
        LET h == last'.msg.h
            cmd == last'.msg.cmd
        IN
        (cmd.op \in Lifecycle /\ h \in DOMAIN devices) =>
            /\ Len(sent') >= 1
            /\ sent'[1].h = h
            /\ sent'[1].pkt.kind = "rsp"
            /\ IF Accepted(devices[h].sessions, cmd)
               THEN /\ Len(sent') = 2
                    /\ sent'[2] =
                          [h |-> h,
                           pkt |-> [kind |-> "ntf", op |-> "SessionStatus",
                                    sid |-> cmd.sid, state |-> Entered(cmd.op),
                                    reason |->
                                       "StateChangeWithSessionManagementCommands"]]
               ELSE Len(sent') = 1

C12_ResponseThenNotification == [][C12_Step]_vars

\* SESSION_DEINIT of session 2 has been accepted while session 1, made Idle
\* by an accepted SESSION_SET_APP_CONFIG, is in the table.
C12_Witness ==
    /\ last.msg.type = "Command"
    /\ last.msg.cmd.op = "SessionDeinit"
    /\ Len(sent) = 2
    /\ sent[2].pkt.state = "Deinit"
    /\ sent[2].pkt.sid = 2
    /\ 1 \in DOMAIN devices[0].sessions
    /\ devices[0].sessions[1].state = "Idle"

(***************************************************************************)
(* C13.  For any sequence of SESSION_INIT, SESSION_SET_APP_CONFIG and      *)
(* SESSION_DEINIT on one session id of one device, the states of the       *)
(* successive session status notifications for that id form a path of the  *)
(* session state machine: the first is Init, Idle only follows Init,       *)
(* Deinit only follows Init, Idle or Active, and Init only follows Deinit. *)
(***************************************************************************)
RECURSIVE StatesOf(_, _)
StatesOf(pkts, sid) ==
    IF pkts = <<>> THEN <<>>
    ELSE (IF IsStatusNtf(Head(pkts)) /\ Head(pkts).sid = sid
          THEN <<Head(pkts).state>> ELSE <<>>) \o StatesOf(Tail(pkts), sid)

\* The packets enqueued for device h so far, oldest first: those written
\* and those still in the queue.
Enqueued(h) ==
    [i \in 1..Len(wire[h]) |-> wire[h][i].pkt] \o outq[h]

PathStep(a, b) ==
    CASE b = "Init" -> a = "Deinit"
      [] b = "Idle" -> a = "Init"
      [] b = "Deinit" -> a \in {"Init", "Idle", "Active"}
      [] OTHER -> FALSE

ValidPath(states) ==
    states /= <<>> =>
        /\ states[1] = "Init"
        /\ \A i \in 1..(Len(states) - 1) : PathStep(states[i], states[i + 1])

C13_NotificationPath ==
    \A h \in DOMAIN wire : ValidPath(StatesOf(Enqueued(h), 1))

\* Init, Idle, Deinit and Init again have been notified, and a SESSION_INIT
\* of the existing session has been answered SessionDuplicate.
C13_Witness ==
    /\ 0 \in DOMAIN wire
    /\ StatesOf(Enqueued(0), 1) = <<"Init", "Idle", "Deinit", "Init">>
    /\ \E i \in 1..Len(wire[0]) :
          /\ wire[0][i].pkt.kind = "rsp"
          /\ wire[0][i].pkt.status = "SessionDuplicate"

(***************************************************************************)
(* C14.  The range-data notification of a handled Ranging message carries  *)
(* the sequence number the session had before the tick, and the counter is *)
(* then incremented by exactly 1 with wrapping arithmetic: the successor   *)
(* of the maximum is 0 and the orchestrator does not crash.  A new session *)
(* starts at 0.                                                            *)
(***************************************************************************)
C14_Step ==
    HandledNow("Ranging") =>
        LET h == last'.msg.h
            sid == last'.msg.sid
        IN
        (h \in DOMAIN devices /\ sid \in DOMAIN devices[h].sessions) =>
            LET seq == devices[h].sessions[sid].sequence_number IN
            /\ Len(sent') = 1
            /\ sent'[1].pkt.op = "RangeData"
            /\ sent'[1].pkt.sequence_number = seq
            /\ orch' = Receiving
            /\ devices'[h].sessions[sid].sequence_number =
                  (seq + 1) % (USIZE_MAX + 1)
            /\ devices'[h].sessions[sid].sequence_number /= seq

C14_NewSessionsStartAtZero ==
    \A h \in DOMAIN devices : \A sid \in DOMAIN devices[h].sessions :
        devices[h].sessions[sid].state = "Init" =>
            devices[h].sessions[sid].sequence_number = 0

C14_ConsecutiveSequenceNumbers ==
    [][C14_Step]_vars /\ []C14_NewSessionsStartAtZero

(***************************************************************************)
(* C15.  The range-data notification of a handled Ranging tick holds       *)
(* exactly one measurement for each destination MAC of the session that is *)
(* an anchor or another live device, in the order of the list, and none    *)
(* for a destination that is neither; each measurement has status OK,      *)
(* nlos 0, slot_index 0 and every figure of merit 100.                     *)
(***************************************************************************)
Resolves(h, mac) ==
    \/ mac \in DOMAIN anchors
    \/ \E other \in DOMAIN devices \ {h} : devices[other].mac_address = mac

ShortOnly(dst) == \A i \in 1..Len(dst) : dst[i].tag = "Short"

C15_Step ==
    HandledNow("Ranging") =>
        LET h == last'.msg.h
            sid == last'.msg.sid
        IN
        (/\ h \in DOMAIN devices
         /\ sid \in DOMAIN devices[h].sessions
         /\ ShortOnly(devices[h].sessions[sid].dst_mac_addresses)) =>
            LET expected == SelectSeq(devices[h].sessions[sid].dst_mac_addresses,
                                      LAMBDA mac : Resolves(h, mac))
                ms == sent'[1].pkt.two_way_ranging_measurements
            IN
            /\ Len(sent') = 1
            /\ Len(ms) = Len(expected)
            /\ \A i \in 1..Len(ms) :
                  /\ ms[i].mac_address = expected[i].addr
                  /\ ms[i].status = "Ok"
                  /\ ms[i].nlos = 0
                  /\ ms[i].slot_index = 0
                  /\ ms[i].aoa_azimuth_fom = 100
                  /\ ms[i].aoa_elevation_fom = 100
                  /\ ms[i].aoa_destination_azimuth_fom = 100
                  /\ ms[i].aoa_destination_elevation_fom = 100

C15_OneMeasurementPerDestination == [][C15_Step]_vars

(***************************************************************************)
(* C16.  A Ranging tick for a session whose destination list holds an      *)
(* Extended MAC address that is an anchor does not crash the orchestrator, *)
(* which goes on to the next message.                                      *)
(***************************************************************************)
C16_Step ==
    HandledNow("Ranging") =>
        LET h == last'.msg.h
            sid == last'.msg.sid
        IN
        (/\ h \in DOMAIN devices
         /\ sid \in DOMAIN devices[h].sessions
         /\ \E i \in 1..Len(devices[h].sessions[sid].dst_mac_addresses) :
               LET mac == devices[h].sessions[sid].dst_mac_addresses[i] IN
               mac.tag = "Extend" /\ mac \in DOMAIN anchors
         /\ devices[h].sessions[sid].sequence_number < USIZE_MAX) =>
            orch' = Receiving

C16_ExtendedMacNoCrash == [][C16_Step]_vars

(***************************************************************************)
(* C17.  A successful SetPosition(mac, pose) stores the pose on the entity *)
(* with that MAC and emits one DeviceUpdated event for it, followed by     *)
(* two NeighborUpdated events (mac to other, other to mac) for each other  *)
(* device and each other anchor of the world, none pairing the entity      *)
(* with itself; the two events of a pair carry the same distance.          *)
(***************************************************************************)
\* The entity SetPosition(mac, ..) moves: a device with the MAC if there is
\* one, the anchor with the MAC otherwise.
Entity(mac) ==
    IF HandlesOf(mac) /= {}
    THEN [kind |-> "Uci", key |-> CHOOSE h \in HandlesOf(mac) : TRUE]
    ELSE [kind |-> "Anchor", key |-> mac]

\* The other entities of the world as SetPosition leaves it.
Others(e) ==
    {[kind |-> "Uci", key |-> h, mac |-> devices'[h].mac_address,
      position |-> devices'[h].position] :
        h \in {x \in DOMAIN devices' : e /= [kind |-> "Uci", key |-> x]}}
    \cup
    {[kind |-> "Anchor", key |-> m, mac |-> m,
      position |-> anchors'[m].position] :
        m \in {x \in DOMAIN anchors' : e /= [kind |-> "Anchor", key |-> x]}}

NeighborEventsOk(events, mac, pos, others) ==
    /\ Len(events) = 2 * Cardinality(others)
    /\ \A i \in 1..Len(events) :
          /\ events[i].event = "NeighborUpdated"
          /\ events[i].source_device.mac_address /=
                events[i].destination_device.mac_address
    /\ \A o \in others :
          LET same == {x \in others : x.mac = o.mac /\ x.position = o.position}
              out == {i \in 1..Len(events) :
                         /\ events[i].source_device.mac_address = mac
                         /\ events[i].source_device.position = pos
                         /\ events[i].destination_device.mac_address = o.mac
                         /\ events[i].destination_device.position = o.position
                         /\ events[i].distance = Distance(pos, o.position)}
              back == {i \in 1..Len(events) :
                         /\ events[i].destination_device.mac_address = mac
                         /\ events[i].destination_device.position = pos
                         /\ events[i].source_device.mac_address = o.mac
                         /\ events[i].source_device.position = o.position
                         /\ events[i].distance = Distance(pos, o.position)}
          IN Cardinality(out) = Cardinality(same) /\
             Cardinality(back) = Cardinality(same)

C17_Step ==
    (HandledNow("SetPosition") /\ reply' = StatusOk) =>
        LET mac == last'.msg.mac
            pos == last'.msg.pos
            e == Entity(mac)
        IN
        /\ IF e.kind = "Uci"
           THEN devices'[e.key].position = pos
           ELSE anchors'[mac].position = pos
        /\ Len(emitted') >= 1
        /\ emitted'[1].event = "DeviceUpdated"
        /\ emitted'[1].device.mac_address = mac
        /\ emitted'[1].device.position = pos
        /\ NeighborEventsOk(Tail(emitted'), mac, pos, Others(e))

C17_SetPositionEvents == [][C17_Step]_vars

(***************************************************************************)
(* C18.  A successful CreateAnchor, DestroyAnchor or InitUciDevice emits   *)
(* its DeviceAdded, DeviceRemoved or DeviceUpdated event and two           *)
(* NeighborUpdated events for every other entity of the world.             *)
(***************************************************************************)
WorldEvent(type) ==
    CASE type = "CreateAnchor" -> "DeviceAdded"
      [] type = "DestroyAnchor" -> "DeviceRemoved"
      [] type = "InitUciDevice" -> "DeviceUpdated"

C18_Step ==
    (/\ last'.tick /= last.tick
     /\ last'.msg.type \in {"CreateAnchor", "DestroyAnchor", "InitUciDevice"}
     /\ reply' = StatusOk) =>
        LET mac == last'.msg.mac
            e == IF last'.msg.type = "InitUciDevice"
                 THEN Entity(mac)
                 ELSE [kind |-> "Anchor", key |-> mac]
        IN
        /\ Len(emitted') = 1 + 2 * Cardinality(Others(e))
        /\ emitted'[1].event = WorldEvent(last'.msg.type)
        /\ emitted'[1].device.mac_address = mac
        /\ \A i \in 2..Len(emitted') : emitted'[i].event = "NeighborUpdated"

C18_WorldChangesUpdateNeighbors == [][C18_Step]_vars

(***************************************************************************)
(* C19.  CreateAnchor(mac, pose) when mac is the MAC of an anchor or of a  *)
(* live device replies Error(AddAnchorFailed(mac)), leaves the anchor and  *)
(* device tables as they are and emits no event; when mac is free it       *)
(* inserts the anchor, emits one DeviceAdded and replies Ok.               *)
(***************************************************************************)
C19_Step ==
    HandledNow("CreateAnchor") =>
        LET mac == last'.msg.mac
            pos == last'.msg.pos
        IN
        /\ devices' = devices
        /\ IF mac \in DOMAIN anchors \/ HandlesOf(mac) /= {}
           THEN /\ reply' = [to |-> "Status", status |-> "Error",
                             err |-> "AddAnchorFailed", mac |-> mac]
                /\ anchors' = anchors
                /\ emitted' = <<>>
           ELSE /\ reply' = [to |-> "Status", status |-> "Ok"]
                /\ DOMAIN anchors' = DOMAIN anchors \cup {mac}
                /\ anchors'[mac] = [mac_address |-> mac, position |-> pos]
                /\ \A m \in DOMAIN anchors : anchors'[m] = anchors[m]
                /\ emitted' = <<[event |-> "DeviceAdded",
                                 device |-> [category |-> "Anchor",
                                             mac_address |-> mac,
                                             position |-> pos]]>>

C19_CreateAnchor == [][C19_Step]_vars

\* A CreateAnchor has been refused because a live device has the MAC, while
\* another anchor exists.
C19_Witness ==
    /\ last.msg.type = "CreateAnchor"
    /\ reply.to = "Status"
    /\ reply.status = "Error"
    /\ last.msg.mac \notin DOMAIN anchors
    /\ HandlesOf(last.msg.mac) /= {}
    /\ anchors /= <<>>

(***************************************************************************)
(* C20.  Every Command(h, cmd) handled while device h is live enqueues     *)
(* exactly one response on the queue of device h and nothing on the queue  *)
(* of another device, whatever the command, SESSION_GET_APP_CONFIG and     *)
(* SESSION_UPDATE_CONTROLLER_MULTICAST_LIST included.                      *)
(***************************************************************************)
C20_Step ==
    HandledNow("Command") =>
        LET h == last'.msg.h IN
        h \in DOMAIN devices =>
            /\ orch' = Receiving
            /\ Cardinality({i \in 1..Len(sent') : sent'[i].pkt.kind = "rsp"}) = 1
            /\ \A i \in 1..Len(sent') : sent'[i].h = h
            /\ \A other \in DOMAIN devices \ {h} : outq'[other] = outq[other]

C20_OneResponsePerCommand == [][C20_Step]_vars

(***************************************************************************)
(* C21.  For every input the parser rejects, the result depends on the     *)
(* header only: a Command of a known group gets the five-byte response     *)
(* [0x40 | group, opcode, 0, 1, UNKNOWN_OID], a Command of an unknown      *)
(* group the same with UNKNOWN_GID, and any other message type is skipped, *)
(* as a well-formed Response or Notification is: nothing is written, the   *)
(* task reads on; in none of these cases is a Command posted.              *)
(***************************************************************************)
\* The connection task of device 0 has made a read in this step, of these
\* bytes.
ReadNow == 0 \in DOMAIN conn /\ conn'[0].n = conn[0].n + 1

BytesRead ==
    SubSeq(conn[0].socket, 1, Len(conn[0].socket) - Len(conn'[0].socket))

C21_Step ==
    ReadNow =>
        LET bytes == BytesRead
            packet == UciPacketPacket_parse(bytes)
            message_type == MessageType_from_u8((bytes[1] \div 32) % 8)
            group_id == bytes[1] % 16
        IN
        CASE packet.result = "Err" /\ message_type = "Command" ->
                /\ conn'[0].pc = "loop"
                /\ inbox' = inbox
                /\ Len(wire'[0]) = Len(wire[0]) + 1
                /\ LET w == wire'[0][Len(wire'[0])] IN
                   /\ w.by = "task"
                   /\ w.pkt.status = IF group_id \in KnownGroups
                                     THEN "UnknownOid" ELSE "UnknownGid"
                   /\ Len(bytes) >= 2 =>
                         w.pkt.header = <<64 + group_id, bytes[2] % 64, 0, 1>>
          [] packet.result = "Err" \/ message_type /= "Command" ->
                /\ conn'[0].pc = "loop"
                /\ inbox' = inbox
                /\ wire' = wire
          [] OTHER -> TRUE

C21_RejectedByHeader == [][C21_Step]_vars

(***************************************************************************)
(* C22.  A well-formed command PDU results in exactly one Command however  *)
(* the socket delivers its bytes: of the bytes of whole command PDUs, a    *)
(* read that ends inside a PDU hands on the PDUs it completes and keeps    *)
(* the rest, and a read that holds two PDUs hands on both; nothing is      *)
(* written to the socket and the task reads on.                            *)
(***************************************************************************)
GetDeviceInfoCmd == <<32, 2, 0, 0>>

\* Commands the task has handed on in this step: put in the inbox, or held
\* by the task waiting for room in the inbox.
HandedOn ==
    (Len(inbox') - Len(inbox)) + (IF conn'[0].pc = "send" THEN 1 ELSE 0)

C22_Step ==
    /\ ReadNow
    /\ conn[0].n = 0
    /\ conn[0].socket \in {GetDeviceInfoCmd, GetDeviceInfoCmd \o GetDeviceInfoCmd}
    => /\ conn'[0].pc /= "panicked"
       /\ wire' = wire
       /\ HandedOn = Len(BytesRead) \div Len(GetDeviceInfoCmd)

C22_OneCommandPerPdu == [][C22_Step]_vars

(***************************************************************************)
(* C23.  The distance from pose a to pose b is the distance from b to a:   *)
(* the assertion local.0 == remote.0 never fails, so that no position      *)
(* update panics the orchestrator, and the two NeighborUpdated events of a *)
(* pair carry the same distance.                                           *)
(***************************************************************************)
Mirrored(e, f) ==
    /\ f.event = "NeighborUpdated"
    /\ f.source_device.mac_address = e.destination_device.mac_address
    /\ f.destination_device.mac_address = e.source_device.mac_address
    /\ f.distance = e.distance

C23_Step ==
    last'.tick /= last.tick =>
        /\ orch' /= Panicked
        /\ \A i \in DOMAIN emitted' :
              emitted'[i].event = "NeighborUpdated" =>
                  /\ \E j \in DOMAIN emitted' : Mirrored(emitted'[i], emitted'[j])
                  /\ emitted'[i].distance =
                        Distance(emitted'[i].destination_device.position,
                                 emitted'[i].source_device.position)

NotFoundReply(mac) ==
    /\ reply' = [to |-> "Status", status |-> "Error",
                 err |-> "DeviceNotFound", mac |-> mac]
    /\ devices' = devices
    /\ anchors' = anchors
    /\ emitted' = <<>>
    /\ orch' = Receiving

C24_Step ==
    /\ HandledNow("SetPosition") =>
          LET mac == last'.msg.mac IN
          HandlesOf(mac) = {} /\ mac \notin DOMAIN anchors => NotFoundReply(mac)
    /\ HandledNow("DestroyAnchor") =>
          LET mac == last'.msg.mac IN
          /\ devices' = devices
          /\ mac \notin DOMAIN anchors => NotFoundReply(mac)

C24_NotFound == [][C24_Step]_vars

\* A DestroyAnchor of the MAC of a live device has been refused while an
\* anchor of another MAC exists.
C24_Witness ==
    /\ last.msg.type = "DestroyAnchor"
    /\ HandlesOf(last.msg.mac) /= {}
    /\ reply.to = "Status"
    /\ reply.status = "Error"
    /\ reply.err = "DeviceNotFound"
    /\ anchors /= <<>>

(***************************************************************************)
(* C25.  InitUciDevice(mac, position) changes the MAC of no device: it     *)
(* succeeds only when a live device already has the MAC, and then only the *)
(* pose of that device changes; otherwise it replies                       *)
(* Error(DeviceNotFound(mac)) and the world is as it was.  A device keeps  *)
(* its default MAC for life.                                               *)
(***************************************************************************)
C25_Step ==
    /\ \A h \in DOMAIN devices' : devices'[h].mac_address = DefaultMac(h)
    /\ HandledNow("InitUciDevice") =>
          LET mac == last'.msg.mac
              pos == last'.msg.pos
          IN
          /\ anchors' = anchors
          /\ IF HandlesOf(mac) /= {}
             THEN /\ reply' = [to |-> "Status", status |-> "Ok"]
                  /\ \E h \in HandlesOf(mac) :
                        devices' = [devices EXCEPT ![h].position = pos]
             ELSE /\ reply' = [to |-> "Status", status |-> "Error",
                               err |-> "DeviceNotFound", mac |-> mac]
                  /\ devices' = devices

C25_InitKeepsMacs == [][C25_Step]_vars

\* An InitUciDevice has moved the second device away from the origin while
\* the first device is live.
C25_Witness ==
    /\ last.msg.type = "InitUciDevice"
    /\ reply = [to |-> "Status", status |-> "Ok"]
    /\ DOMAIN devices = {0, 1}
    /\ last.msg.mac = DefaultMac(1)
    /\ devices[1].position = last.msg.pos
    /\ devices[1].position /= ZeroPos

(***************************************************************************)
(* C26.  In every NeighborUpdated event the source entry and the           *)
(* destination entry each carry the category of their own MAC: Uci for    *)
(* the MAC of a live device, Anchor for the MAC of an anchor, as GetState  *)
(* reports them; in particular when a device and an anchor are paired.     *)
(***************************************************************************)
\* The categories under which the world, as the step leaves it, holds mac.
CategoriesOf(mac) ==
    {c \in {"Uci", "Anchor"} :
        \/ c = "Uci" /\ \E h \in DOMAIN devices' : devices'[h].mac_address = mac
        \/ c = "Anchor" /\ mac \in DOMAIN anchors'}

C26_Step ==
    \A i \in DOMAIN emitted' :
        emitted'[i].event = "NeighborUpdated" =>
            /\ emitted'[i].source_device.category \in
                  CategoriesOf(emitted'[i].source_device.mac_address)
            /\ emitted'[i].destination_device.category \in
                  CategoriesOf(emitted'[i].destination_device.mac_address)

C26_NeighborCategories == [][C26_Step]_vars

(***************************************************************************)
(* C27.  SESSION_SET_APP_CONFIG changes the state of a session only from   *)
(* Init to Idle: on an Idle session it leaves the session Idle and         *)
(* enqueues no session status notification.  SESSION_GET_STATE and         *)
(* SESSION_GET_COUNT change no session and no session table and enqueue no *)
(* notification.                                                           *)
(***************************************************************************)
NoNotification == \A i \in 1..Len(sent') : ~IsStatusNtf(sent'[i].pkt)

C27_Step ==
    HandledNow("Command") =>
        LET h == last'.msg.h
            cmd == last'.msg.cmd
        IN
        h \in DOMAIN devices =>
            /\ cmd.op = "SessionSetAppConfig" =>
                  /\ DOMAIN devices'[h].sessions = DOMAIN devices[h].sessions
                  /\ \A sid \in DOMAIN devices[h].sessions :
                        LET old == devices[h].sessions[sid].state
                            new == devices'[h].sessions[sid].state
                        IN
                        /\ new /= old =>
                              sid = cmd.sid /\ old = "Init" /\ new = "Idle"
                        /\ (sid = cmd.sid /\ old = "Idle") =>
                              new = "Idle" /\ NoNotification
            /\ cmd.op \in {"SessionGetState", "SessionGetCount"} =>
                  /\ devices' = devices
                  /\ NoNotification

C27_OnlyInitToIdle == [][C27_Step]_vars

\* A SESSION_SET_APP_CONFIG has been handled on a session that was Idle
\* (it is Idle and only the response was enqueued) while another session
\* is Active.
C27_Witness ==
    /\ last.msg.type = "Command"
    /\ last.msg.cmd.op = "SessionSetAppConfig"
    /\ 0 \in DOMAIN devices
    /\ last.msg.cmd.sid \in DOMAIN devices[0].sessions
    /\ devices[0].sessions[last.msg.cmd.sid].state = "Idle"
    /\ Len(sent) = 1
    /\ \E sid \in DOMAIN devices[0].sessions :
          devices[0].sessions[sid].state = "Active"
====
